---- MODULE Spec2Model ----
(***************************************************************************)
(* Model of crates/evm/traces/src/identifier/mod.rs: the composite trace   *)
(* identifier TraceIdentifiers, its builder surface and its                *)
(* identify_addresses implementation.                                      *)
(*                                                                         *)
(* The two strategies (LocalTraceIdentifier, EtherscanIdentifier) are      *)
(* external collaborators: what they return is a nondeterministic input.   *)
(* identify_addresses is cut only at the two external strategy calls, so   *)
(* that "local completes before etherscan starts" is an observable order.  *)
(***************************************************************************)
EXTENDS Integers, Sequences, FiniteSets, TLC

\* ---------------------------------------------------------------- bounds
MaxNodes == 2        \* longest input batch
MaxRecords == 2      \* longest record sequence one strategy returns
NumAddresses == 2    \* distinct addresses
MaxCalls == 2        \* identify_addresses calls on one configuration

Addresses == 1..NumAddresses
KnownContracts == {"kc1"}             \* caller-owned artifact registry
ContractsBytecode == {"bc1"}          \* caller-owned address->bytecode maps
EtherscanIdentifiers == {"e1"}        \* remote strategy construction can yield
Reports == {"eyre"}                   \* eyre::Report values

\* ------------------------------------------------- Option / Result values
None == <<>>
Some(v) == <<v>>
Unwrap(o) == o[1]
is_none(o) == o = <<>>
is_some(o) == o # <<>>

Ok(v) == <<"Ok", v>>
Err(e) == <<"Err", <<e>>>>
is_ok(r) == r[1] = "Ok"
is_err(r) == r[1] = "Err"

\* All sequences over S of length at most n.
SeqUpTo(S, n) == UNION {[1..k -> S] : k \in 0..n}

\* ------------------------------------------------------------ data model
\* IdentifiedAddress: the address is the identity key; label, contract, abi
\* and artifact_id are never read by this module and are left out.
IdentifiedAddress(a) == [address |-> a]
IdentifiedAddresses == {IdentifiedAddress(a) : a \in Addresses}

\* A CallTraceNode is read only for its address.
NodeBatches == SeqUpTo(Addresses, MaxNodes)
\* What a strategy may hand back: any sequence of records.
StrategyOutputs == SeqUpTo(IdentifiedAddresses, MaxRecords)

\* LocalTraceIdentifier::new(known_contracts)
LocalTraceIdentifier_new(kc) == [known_contracts |-> kc, contracts_bytecode |-> None]
\* LocalTraceIdentifier::with_bytecodes(contracts_bytecode)
with_bytecodes(l, bc) == [l EXCEPT !.contracts_bytecode = Some(bc)]

\* EtherscanIdentifier::new(config, chain) -> eyre::Result<Option<Self>>
EtherscanIdentifier_new_outcomes ==
    {Ok(None)} \cup {Ok(Some(e)) : e \in EtherscanIdentifiers}
               \cup {Err(r) : r \in Reports}

\* ----------------------------------------------------------------- state
VARIABLES
    self,          \* Option<TraceIdentifiers>: the instance the caller owns
    err,           \* Option<eyre::Report>: error returned by the last builder call
    op,            \* name of the last builder operation
    ctor,          \* Option<outcome> of the last EtherscanIdentifier::new
    lastLocal,     \* Option<arguments> of the latest attach to the local slot
    lastEtherscan, \* Option<outcome> of the latest attach to the etherscan slot
    replaced,      \* Option<strategy> the last operation dropped from a slot
    pc,            \* position of identify_addresses
    nodes,         \* the batch of the current / last call
    identities,    \* the local Vec being built
    result,        \* Option<Vec>: value returned by the last call
    events,        \* strategy calls and returns of the current / last call
    localOut,      \* Option<Vec>: what local returned in this call
    etherscanOut,  \* Option<Vec>: what etherscan returned in this call
    localIn,       \* Option<batch>: the argument local was invoked with
    etherscanIn,   \* Option<batch>: the argument etherscan was invoked with
    calls,         \* identify_addresses calls since the last builder operation
    localCalls,    \* local.identify_addresses invocations since then
    etherscanCalls \* etherscan.identify_addresses invocations since then

vars == <<self, err, op, ctor, lastLocal, lastEtherscan, replaced, pc, nodes, identities, result, events,
          localOut, etherscanOut, localIn, etherscanIn,
          calls, localCalls, etherscanCalls>>
argVars == <<localIn, etherscanIn>>
countVars == <<calls, localCalls, etherscanCalls>>
callVars == <<pc, nodes, identities, result, events, localOut, etherscanOut>>
builderVars == <<self, err, op, ctor, lastLocal, lastEtherscan>>

\* No call is in progress.
Quiescent == pc \in {"idle", "returned"}
InCall == pc \in {"local", "etherscan"}

\* ------------------------------------------------------------- functions
\* TraceIdentifiers::new
new == [local |-> None, etherscan |-> None]

\* Variant: only the local slot is looked at.
is_empty_local_only(s) == is_none(s.local)

\* TraceIdentifiers::is_empty
is_empty(s) == is_none(s.local) /\ is_none(s.etherscan)

\* Variant: the vector is created with n default records (vec![x; n]).
with_capacity_filled(n) == [i \in 1..n |-> IdentifiedAddress(0)]

\* Vec::with_capacity(n): capacity is a hint, the vector is empty.
with_capacity(n) == <<>>

\* Variant: records already present are skipped.
extend_dedup(vec, items) ==
    vec \o SelectSeq(items, LAMBDA r : \A i \in 1..Len(vec) : vec[i] # r)

\* Vec::extend
extend(vec, items) == vec \o items

\* Variants of the test of line 59.
ShortCircuit_gt(ids, ns) == Len(ids) > Len(ns)
ShortCircuit_le(ids, ns) == Len(ids) <= Len(ns)
ShortCircuit_or_empty(ids, ns) == Len(ids) >= Len(ns) \/ Len(ids) = 0
\* ... the test is skipped for an empty batch
ShortCircuit_nonempty_batch(ids, ns) == Len(ns) > 0 /\ Len(ids) >= Len(ns)
\* ... per-address coverage instead of the raw count
ShortCircuit_coverage(ids, ns) ==
    {ns[i] : i \in 1..Len(ns)} \subseteq {ids[i].address : i \in 1..Len(ids)}
\* ... raw count against the number of distinct addresses
ShortCircuit_distinct(ids, ns) ==
    Len(ids) >= Cardinality({ns[i] : i \in 1..Len(ns)})

\* The test of line 59.
ShortCircuit(ids, ns) == Len(ids) >= Len(ns)

\* --------------------------------------------------------------- builder
\* A builder call consumes the instance; records of an earlier call borrow
\* the instance, so none is alive any more.
ForgetCall ==
    /\ pc' = "idle"
    /\ nodes' = <<>>
    /\ identities' = <<>>
    /\ result' = None
    /\ events' = <<>>
    /\ localOut' = None
    /\ etherscanOut' = None
    /\ localIn' = None
    /\ etherscanIn' = None
    /\ calls' = 0
    /\ localCalls' = 0
    /\ etherscanCalls' = 0

New ==
    /\ Quiescent
    /\ self' = Some(new)
    /\ err' = None
    /\ op' = "new"
    /\ ctor' = None
    /\ lastLocal' = None
    /\ lastEtherscan' = None
    /\ replaced' = None
    /\ ForgetCall

\* Variant: the instance is rebuilt from new() with only the local slot set.
with_local_from_new(kc) ==
    /\ Quiescent
    /\ is_some(self)
    /\ self' = Some([new EXCEPT !.local = Some(LocalTraceIdentifier_new(kc))])
    /\ err' = None
    /\ op' = "with_local"
    /\ ctor' = None
    /\ lastLocal' = Some(<<kc>>)
    /\ lastEtherscan' = lastEtherscan
    /\ replaced' = Unwrap(self).local
    /\ ForgetCall

with_local(kc) ==
    /\ Quiescent
    /\ is_some(self)
    /\ self' = Some([Unwrap(self) EXCEPT !.local = Some(LocalTraceIdentifier_new(kc))])
    /\ err' = None
    /\ op' = "with_local"
    /\ ctor' = None
    /\ lastLocal' = Some(<<kc>>)
    /\ lastEtherscan' = lastEtherscan
    /\ replaced' = Unwrap(self).local
    /\ ForgetCall

with_local_and_bytecodes(kc, bc) ==
    /\ Quiescent
    /\ is_some(self)
    /\ self' = Some([Unwrap(self) EXCEPT
                       !.local = Some(with_bytecodes(LocalTraceIdentifier_new(kc), bc))])
    /\ err' = None
    /\ op' = "with_local_and_bytecodes"
    /\ ctor' = None
    /\ lastLocal' = Some(<<kc, bc>>)
    /\ lastEtherscan' = lastEtherscan
    /\ replaced' = Unwrap(self).local
    /\ ForgetCall

\* Variant: a construction that yields no strategy is reported as an error.
with_etherscan_none_is_error(outcome) ==
    /\ Quiescent
    /\ is_some(self)
    /\ IF is_err(outcome) \/ outcome = Ok(None)
         THEN /\ self' = None
              /\ err' = IF is_err(outcome) THEN outcome[2] ELSE Some("eyre")
              /\ lastLocal' = None
              /\ lastEtherscan' = None
              /\ replaced' = None
         ELSE /\ self' = Some([Unwrap(self) EXCEPT !.etherscan = outcome[2]])
              /\ err' = None
              /\ lastLocal' = lastLocal
              /\ lastEtherscan' = Some(outcome)
              /\ replaced' = Unwrap(self).etherscan
    /\ op' = "with_etherscan"
    /\ ctor' = Some(outcome)
    /\ ForgetCall

\* Variant: the slot is written only when construction yields a strategy.
with_etherscan_keep_on_none(outcome) ==
    /\ Quiescent
    /\ is_some(self)
    /\ IF is_err(outcome)
         THEN /\ self' = None
              /\ err' = outcome[2]
              /\ lastLocal' = None
              /\ lastEtherscan' = None
              /\ replaced' = None
         ELSE /\ self' = IF is_some(outcome[2])
                           THEN Some([Unwrap(self) EXCEPT !.etherscan = outcome[2]])
                           ELSE self
              /\ err' = None
              /\ lastLocal' = lastLocal
              /\ lastEtherscan' = Some(outcome)
              /\ replaced' = IF is_some(outcome[2]) THEN Unwrap(self).etherscan ELSE None
    /\ op' = "with_etherscan"
    /\ ctor' = Some(outcome)
    /\ ForgetCall

\* `self.etherscan = EtherscanIdentifier::new(config, chain)?; Ok(self)`
with_etherscan(outcome) ==
    /\ Quiescent
    /\ is_some(self)
    /\ IF is_err(outcome)
         THEN /\ self' = None                 \* `?` returns; self is dropped
              /\ err' = outcome[2]
              /\ lastLocal' = None
              /\ lastEtherscan' = None
              /\ replaced' = None
         ELSE /\ self' = Some([Unwrap(self) EXCEPT !.etherscan = outcome[2]])
              /\ err' = None
              /\ lastLocal' = lastLocal
              /\ lastEtherscan' = Some(outcome)
              /\ replaced' = Unwrap(self).etherscan
    /\ op' = "with_etherscan"
    /\ ctor' = Some(outcome)
    /\ ForgetCall

\* ---------------------------------------------------- identify_addresses
\* `return identities` / the tail expression.
Return(ids, evs) ==
    /\ pc' = "returned"
    /\ identities' = ids
    /\ result' = Some(ids)
    /\ events' = evs
    /\ etherscanCalls' = etherscanCalls

\* Variant: etherscan is handed only the nodes beyond those local answered.
Line63_remaining_nodes(ids, evs) ==
    IF is_some(Unwrap(self).etherscan)
      THEN /\ pc' = "etherscan"
           /\ identities' = ids
           /\ events' = evs \o <<"etherscan_call">>
           /\ result' = None
           /\ etherscanCalls' = etherscanCalls + 1
           /\ etherscanIn' = Some(SubSeq(nodes', Len(ids) + 1, Len(nodes')))
      ELSE /\ Return(ids, evs)
           /\ etherscanIn' = None

\* Lines 63-66, entered with the vector ids; nodes' is the batch of the call.
Line63(ids, evs) ==
    IF is_some(Unwrap(self).etherscan)
      THEN /\ pc' = "etherscan"
           /\ identities' = ids
           /\ events' = evs \o <<"etherscan_call">>
           /\ result' = None
           /\ etherscanCalls' = etherscanCalls + 1
           /\ etherscanIn' = Some(nodes')
      ELSE /\ Return(ids, evs)
           /\ etherscanIn' = None

\* Variant: the length test sits after the `if let` block and so also runs
\* when there is no local strategy.
identify_addresses_lifted_check(ns) ==
    /\ Quiescent
    /\ is_some(self)
    /\ calls < MaxCalls
    /\ calls' = calls + 1
    /\ replaced' = None
    /\ nodes' = ns
    /\ localOut' = None
    /\ etherscanOut' = None
    /\ IF is_some(Unwrap(self).local)
         THEN /\ pc' = "local"
              /\ identities' = with_capacity(Len(ns))
              /\ events' = <<"local_call">>
              /\ result' = None
              /\ localCalls' = localCalls + 1
              /\ etherscanCalls' = etherscanCalls
              /\ localIn' = Some(ns)
              /\ etherscanIn' = None
         ELSE /\ localCalls' = localCalls
              /\ localIn' = None
              /\ IF Len(with_capacity(Len(ns))) >= Len(ns)
                   THEN Return(with_capacity(Len(ns)), <<>>) /\ etherscanIn' = None
                   ELSE Line63(with_capacity(Len(ns)), <<>>)
    /\ UNCHANGED builderVars

\* Lines 55-58: entry up to the first strategy call (or the return).
identify_addresses(ns) ==
    /\ Quiescent
    /\ is_some(self)
    /\ calls < MaxCalls
    /\ calls' = calls + 1
    /\ replaced' = None
    /\ nodes' = ns
    /\ localOut' = None
    /\ etherscanOut' = None
    /\ IF is_some(Unwrap(self).local)
         THEN /\ pc' = "local"
              /\ identities' = with_capacity(Len(ns))
              /\ events' = <<"local_call">>
              /\ result' = None
              /\ localCalls' = localCalls + 1
              /\ etherscanCalls' = etherscanCalls
              /\ localIn' = Some(ns)
              /\ etherscanIn' = None
         ELSE /\ localCalls' = localCalls
              /\ localIn' = None
              /\ Line63(with_capacity(Len(ns)), <<>>)
    /\ UNCHANGED builderVars

\* Variant: an empty answer from local is retried once.
LocalReturns_retry(recs) ==
    /\ pc = "local"
    /\ UNCHANGED nodes
    /\ IF recs = <<>> /\ Len(events) < 3
         THEN /\ pc' = "local"
              /\ events' = events \o <<"local_ret", "local_call">>
              /\ localCalls' = localCalls + 1
              /\ UNCHANGED <<localOut, identities, result, etherscanCalls, etherscanIn>>
         ELSE /\ localOut' = Some(recs)
              /\ localCalls' = localCalls
              /\ LET ids == extend(identities, recs)
                     evs == events \o <<"local_ret">>
                 IN IF ShortCircuit(ids, nodes)
                      THEN Return(ids, evs) /\ etherscanIn' = None
                      ELSE Line63(ids, evs)
    /\ UNCHANGED <<etherscanOut, localIn, calls, replaced>>
    /\ UNCHANGED builderVars

\* Lines 58-62: local.identify_addresses(nodes) returns recs.
LocalReturns(recs) ==
    /\ pc = "local"
    /\ UNCHANGED nodes
    /\ localOut' = Some(recs)
    /\ LET ids == extend(identities, recs)
           evs == events \o <<"local_ret">>
       IN IF ShortCircuit(ids, nodes)
            THEN Return(ids, evs) /\ etherscanIn' = None
            ELSE Line63(ids, evs)
    /\ UNCHANGED <<etherscanOut, localIn, calls, localCalls, replaced>>
    /\ UNCHANGED builderVars

\* Lines 64-66: etherscan.identify_addresses(nodes) returns recs.
EtherscanReturns(recs) ==
    /\ pc = "etherscan"
    /\ etherscanOut' = Some(recs)
    /\ Return(extend(identities, recs), events \o <<"etherscan_ret">>)
    /\ UNCHANGED <<nodes, localOut, localIn, etherscanIn, calls, localCalls, replaced>>
    /\ UNCHANGED builderVars

\* ---------------------------------------------------------- specification
Init ==
    /\ self = Some(new)
    /\ err = None
    /\ op = "new"
    /\ ctor = None
    /\ lastLocal = None
    /\ lastEtherscan = None
    /\ replaced = None
    /\ pc = "idle"
    /\ nodes = <<>>
    /\ identities = <<>>
    /\ result = None
    /\ events = <<>>
    /\ localOut = None
    /\ etherscanOut = None
    /\ localIn = None
    /\ etherscanIn = None
    /\ calls = 0
    /\ localCalls = 0
    /\ etherscanCalls = 0

Next ==
    \/ New
    \/ \E kc \in KnownContracts : with_local(kc)
    \/ \E kc \in KnownContracts, bc \in ContractsBytecode : with_local_and_bytecodes(kc, bc)
    \/ \E outcome \in EtherscanIdentifier_new_outcomes : with_etherscan(outcome)
    \/ \E ns \in NodeBatches : identify_addresses(ns)
    \/ \E recs \in StrategyOutputs : LocalReturns(recs)
    \/ \E recs \in StrategyOutputs : EtherscanReturns(recs)

Spec == Init /\ [][Next]_vars

\* Every invoked strategy returns.
FairSpec ==
    /\ Spec
    /\ WF_vars(pc = "local" /\ \E recs \in StrategyOutputs : LocalReturns(recs))
    /\ WF_vars(pc = "etherscan" /\ \E recs \in StrategyOutputs : EtherscanReturns(recs))

\* ------------------------------------------------------------ vocabulary
Count(e, evs) == Cardinality({i \in 1..Len(evs) : evs[i] = e})
OrEmpty(o) == IF is_some(o) THEN Unwrap(o) ELSE <<>>
Returned == pc = "returned"
HasLocal == is_some(self) /\ is_some(Unwrap(self).local)
HasEtherscan == is_some(self) /\ is_some(Unwrap(self).etherscan)
AddressesOf(recs) == {recs[i].address : i \in 1..Len(recs)}
NodeAddresses == {nodes[i] : i \in 1..Len(nodes)}

TypeOK ==
    /\ pc \in {"idle", "local", "etherscan", "returned"}
    /\ nodes \in NodeBatches
    /\ is_some(result) => Unwrap(result) \in Seq(IdentifiedAddresses)
    /\ InCall \/ Returned => is_some(self)

\* ------------------------------------------------------------------ C1
\* C1: with a local strategy configured, once local has returned at least
\* as many records as there are input nodes, the call has returned exactly
\* the local records and etherscan was not invoked, configured or not.
C1_ShortCircuitSkipsRemote ==
    (HasLocal /\ is_some(localOut) /\ Len(Unwrap(localOut)) >= Len(nodes)) =>
        /\ Returned
        /\ Count("etherscan_call", events) = 0
        /\ is_none(etherscanOut)
        /\ result = localOut

C1_Witness ==
    /\ Returned /\ HasLocal /\ HasEtherscan
    /\ Len(nodes) > 0
    /\ is_some(localOut) /\ Len(Unwrap(localOut)) >= Len(nodes)
    /\ Count("etherscan_call", events) = 0

\* ------------------------------------------------------------------ C2
\* C2: with both strategies configured, once local has returned fewer
\* records than there are input nodes, etherscan is invoked exactly once,
\* and only after local's invocation has completed; while local runs
\* etherscan has not been invoked.
C2_RemoteOnceAfterLocal ==
    /\ (HasLocal /\ pc = "local") => events = <<"local_call">>
    /\ (HasLocal /\ HasEtherscan /\ is_some(localOut)
          /\ Len(Unwrap(localOut)) < Len(nodes)) =>
        /\ Count("etherscan_call", events) = 1
        /\ Count("local_call", events) = 1
        /\ SubSeq(events, 1, 3) = <<"local_call", "local_ret", "etherscan_call">>
        /\ Returned =>
             events = <<"local_call", "local_ret", "etherscan_call", "etherscan_ret">>

C2_Witness ==
    /\ Returned /\ HasLocal /\ HasEtherscan
    /\ is_some(localOut) /\ Len(Unwrap(localOut)) < Len(nodes)
    /\ events = <<"local_call", "local_ret", "etherscan_call", "etherscan_ret">>

\* ------------------------------------------------------------------ C3
\* C3: with only etherscan configured, every call invokes etherscan (and
\* nothing else) whatever the batch size, an empty batch included, and
\* returns what etherscan returned.
C3_RemoteOnlyAlwaysInvoked ==
    (is_some(self) /\ ~HasLocal /\ HasEtherscan /\ pc # "idle") =>
        /\ Count("etherscan_call", events) = 1
        /\ Count("local_call", events) = 0
        /\ Returned =>
             /\ events = <<"etherscan_call", "etherscan_ret">>
             /\ is_some(etherscanOut)
             /\ result = etherscanOut

C3_Witness ==
    /\ Returned /\ ~HasLocal /\ HasEtherscan
    /\ Len(nodes) = 0
    /\ events = <<"etherscan_call", "etherscan_ret">>

\* ------------------------------------------------------------------ C4
\* C4: the returned sequence is the local records (if local was invoked)
\* followed by the etherscan records (if etherscan was invoked): nothing
\* dropped, duplicated, deduplicated or reordered.
C4_MergeIsConcatenation ==
    Returned =>
        /\ is_some(result)
        /\ Unwrap(result) = OrEmpty(localOut) \o OrEmpty(etherscanOut)
        /\ Len(Unwrap(result)) = Len(OrEmpty(localOut)) + Len(OrEmpty(etherscanOut))
        /\ is_some(localOut) <=> Count("local_call", events) = 1
        /\ is_some(etherscanOut) <=> Count("etherscan_call", events) = 1

\* Both strategies were invoked and etherscan repeats a record of local.
C4_Witness ==
    /\ Returned
    /\ is_some(localOut) /\ is_some(etherscanOut)
    /\ Len(Unwrap(localOut)) > 0 /\ Len(Unwrap(etherscanOut)) > 0
    /\ AddressesOf(Unwrap(localOut)) \cap AddressesOf(Unwrap(etherscanOut)) # {}
    /\ Len(Unwrap(result)) = Len(Unwrap(localOut)) + Len(Unwrap(etherscanOut))

\* ------------------------------------------------------------------ C5
\* C5: an instance with no configured strategy (as new() produces) returns
\* an empty result for every batch and invokes no strategy.
C5_EmptyOrchestrator ==
    /\ (op = "new" /\ is_some(self)) => is_empty(Unwrap(self))
    /\ (Returned /\ ~HasLocal /\ ~HasEtherscan) =>
        /\ result = Some(<<>>)
        /\ events = <<>>
        /\ is_none(localOut) /\ is_none(etherscanOut)

C5_Witness ==
    /\ Returned /\ op = "new"
    /\ Len(nodes) > 0
    /\ result = Some(<<>>)

\* ------------------------------------------------------------------ C6
\* C6: is_empty() is true iff neither slot holds a strategy; it is true
\* right after new() and false after with_local / with_local_and_bytecodes.
LocalStrategies ==
    {LocalTraceIdentifier_new(kc) : kc \in KnownContracts} \cup
    {with_bytecodes(LocalTraceIdentifier_new(kc), bc) :
        kc \in KnownContracts, bc \in ContractsBytecode}

C6_IsEmptyIffNoSlot ==
    is_some(self) =>
        LET s == Unwrap(self)
            holdsLocal == \E l \in LocalStrategies : s.local = Some(l)
            holdsRemote == \E e \in EtherscanIdentifiers : s.etherscan = Some(e)
        IN /\ is_empty(s) <=> (~holdsLocal /\ ~holdsRemote)
           /\ op = "new" => is_empty(s)
           /\ op \in {"with_local", "with_local_and_bytecodes"} => ~is_empty(s)

\* Only etherscan is configured and a call has been made.
C6_Witness ==
    /\ Returned
    /\ is_none(Unwrap(self).local) /\ is_some(Unwrap(self).etherscan)
    /\ ~is_empty(Unwrap(self))

\* ------------------------------------------------------------------ C7
\* C7: with_etherscan has three outcomes, fixed by the construction of the
\* remote strategy: no strategy -> success with the remote slot absent;
\* a strategy -> success with the remote slot set; failure -> one error
\* and no instance.
C7_WithEtherscanOutcomes ==
    op = "with_etherscan" =>
        /\ is_some(ctor)
        /\ LET o == Unwrap(ctor)
           IN /\ o \in EtherscanIdentifier_new_outcomes
              /\ o = Ok(None) =>
                   /\ is_some(self) /\ is_none(Unwrap(self).etherscan)
                   /\ is_none(err)
              /\ (is_ok(o) /\ is_some(o[2])) =>
                   /\ is_some(self) /\ Unwrap(self).etherscan = o[2]
                   /\ is_none(err)
              /\ is_err(o) =>
                   /\ is_none(self)
                   /\ Len(err) = 1 /\ err = o[2]

\* Unsupported chain on an instance with a local strategy: success, no remote.
C7_Witness ==
    /\ op = "with_etherscan" /\ ctor = Some(Ok(None))
    /\ HasLocal /\ ~HasEtherscan /\ is_none(err)

\* ------------------------------------------------------------------ C8
\* C8: the short-circuit looks at the raw record count only: whenever local
\* returns at least as many records as there are nodes, etherscan is
\* skipped even though an address of the batch has no record in the
\* result (and such a call exists: C8_Witness).
Unidentified(recs) == NodeAddresses \ AddressesOf(recs)

C8_SkipsRemoteDespiteUnidentified ==
    (HasLocal /\ HasEtherscan /\ is_some(localOut)
       /\ Len(Unwrap(localOut)) >= Len(nodes)
       /\ Unidentified(Unwrap(localOut)) # {}) =>
        /\ Returned
        /\ Count("etherscan_call", events) = 0
        /\ Unidentified(Unwrap(result)) # {}

C8_Witness ==
    /\ Returned /\ HasLocal /\ HasEtherscan
    /\ Len(Unwrap(localOut)) >= Len(nodes)
    /\ Cardinality(AddressesOf(Unwrap(localOut))) < Len(Unwrap(localOut))
    /\ Count("etherscan_call", events) = 0
    /\ Unidentified(Unwrap(result)) # {}

\* ------------------------------------------------------------------ C9
\* C9: whenever local returns fewer records than there are nodes, etherscan
\* is invoked even though every distinct address of the batch already has
\* a local record (and such a call exists: C9_Witness).
C9_InvokesRemoteDespiteCoverage ==
    (HasLocal /\ HasEtherscan /\ is_some(localOut)
       /\ Len(Unwrap(localOut)) < Len(nodes)
       /\ Unidentified(Unwrap(localOut)) = {}) =>
        Count("etherscan_call", events) = 1

\* The batch repeats an address that local has resolved.
C9_Witness ==
    /\ Returned /\ HasLocal /\ HasEtherscan
    /\ Cardinality(NodeAddresses) < Len(nodes)
    /\ Unidentified(Unwrap(localOut)) = {}
    /\ Len(Unwrap(localOut)) < Len(nodes)
    /\ Count("etherscan_call", events) = 1

\* ----------------------------------------------------------------- C10
\* C10: identify_addresses never fails: provided each invoked strategy
\* returns, every call returns a (possibly empty) record sequence and no
\* error; an empty sequence from a strategy adds zero records and neither
\* aborts nor alters the rest of the call.
C10_CallSafety ==
    /\ (InCall \/ Returned) => is_none(err) /\ is_some(self)
    /\ Returned => is_some(result) /\ Unwrap(result) \in Seq(IdentifiedAddresses)
    /\ (Returned /\ localOut = Some(<<>>) /\ HasEtherscan /\ Len(nodes) > 0) =>
           is_some(etherscanOut) /\ result = etherscanOut
    /\ (Returned /\ etherscanOut = Some(<<>>)) => result = Some(OrEmpty(localOut))

C10_NeverFails == [] C10_CallSafety /\ (InCall ~> Returned)

\* Both strategies reported failure on a non-empty batch.
C10_Witness ==
    /\ Returned /\ Len(nodes) > 0
    /\ localOut = Some(<<>>) /\ etherscanOut = Some(<<>>)
    /\ result = Some(<<>>)

\* ----------------------------------------------------------------- C11
\* C11: no retries. Within one call each strategy is invoked at most once
\* and a configured local strategy exactly once, whatever the strategies
\* return; over k calls on one configuration local is invoked exactly k
\* times (never when absent) and etherscan at most k times.
C11_NoRetries ==
    /\ Count("local_call", events) <= 1
    /\ Count("etherscan_call", events) <= 1
    /\ (HasLocal /\ pc # "idle") => Count("local_call", events) = 1
    /\ HasLocal => localCalls = calls
    /\ ~HasLocal => localCalls = 0
    /\ etherscanCalls <= calls
    /\ ~HasEtherscan => etherscanCalls = 0

\* Second call; both strategies answered with an empty sequence, the first
\* call had been short-circuited.
C11_Witness ==
    /\ Returned /\ HasLocal /\ HasEtherscan
    /\ calls = 2 /\ localCalls = 2 /\ etherscanCalls = 1
    /\ Len(nodes) > 0
    /\ localOut = Some(<<>>) /\ etherscanOut = Some(<<>>)

\* ----------------------------------------------------------------- C12
\* C12: the composite keeps the strategy contract. Every invoked strategy
\* is handed the caller's batch unchanged, and if every record a strategy
\* returned identifies an address of the batch it was handed, every record
\* of the merged result identifies an address of the caller's batch.
BatchAddresses(b) == {b[i] : i \in 1..Len(b)}
KeepsContract(in, out) ==
    is_some(out) => AddressesOf(Unwrap(out)) \subseteq BatchAddresses(Unwrap(in))

C12_CompositeKeepsContract ==
    /\ is_some(localIn) => localIn = Some(nodes)
    /\ is_some(etherscanIn) => etherscanIn = Some(nodes)
    /\ is_some(localOut) => is_some(localIn)
    /\ is_some(etherscanOut) => is_some(etherscanIn)
    /\ (Returned /\ KeepsContract(localIn, localOut)
                 /\ KeepsContract(etherscanIn, etherscanOut)) =>
           AddressesOf(Unwrap(result)) \subseteq NodeAddresses

\* Both strategies answered within the batch, which leaves an address out.
C12_Witness ==
    /\ Returned
    /\ is_some(localOut) /\ Unwrap(localOut) # <<>>
    /\ is_some(etherscanOut) /\ Unwrap(etherscanOut) # <<>>
    /\ KeepsContract(localIn, localOut) /\ KeepsContract(etherscanIn, etherscanOut)
    /\ NodeAddresses # Addresses
    /\ AddressesOf(Unwrap(result)) \subseteq NodeAddresses

\* ----------------------------------------------------------------- C13
\* C13: with a local strategy configured and an empty batch the test
\* 0 >= 0 holds after the local invocation: etherscan is never invoked,
\* configured or not, whatever local returned, and the call returns the
\* local records only. Without a local strategy etherscan is invoked on
\* the same empty batch.
C13_EmptyBatchShortCircuits ==
    /\ (HasLocal /\ pc # "idle" /\ Len(nodes) = 0) =>
        /\ pc # "etherscan"
        /\ Count("etherscan_call", events) = 0
        /\ is_none(etherscanOut)
        /\ Returned =>
             /\ events = <<"local_call", "local_ret">>
             /\ result = localOut
    /\ (~HasLocal /\ HasEtherscan /\ pc # "idle" /\ Len(nodes) = 0) =>
        Count("etherscan_call", events) = 1

\* Empty batch, local returned nothing, etherscan configured but not invoked.
C13_Witness ==
    /\ Returned /\ HasLocal /\ HasEtherscan
    /\ nodes = <<>>
    /\ localOut = Some(<<>>) /\ result = Some(<<>>)
    /\ Count("etherscan_call", events) = 0

\* ----------------------------------------------------------------- C14
\* C14: re-attachment is last-writer-wins per slot. Each slot holds the
\* outcome of the latest attach to it: a with_etherscan whose construction
\* yields no strategy leaves the etherscan slot absent even if it held a
\* strategy, and with_local / with_local_and_bytecodes replace an earlier
\* local strategy, a with_local dropping an earlier bytecode mapping.
LocalFromArguments(a) ==
    [known_contracts |-> a[1],
     contracts_bytecode |-> IF Len(a) = 2 THEN Some(a[2]) ELSE None]

C14_LastWriterWins ==
    is_some(self) =>
        LET s == Unwrap(self)
        IN /\ s.local = IF is_some(lastLocal)
                          THEN Some(LocalFromArguments(Unwrap(lastLocal)))
                          ELSE None
           /\ s.etherscan = IF is_some(lastEtherscan)
                              THEN Unwrap(lastEtherscan)[2]
                              ELSE None
           /\ (op = "with_etherscan" /\ ctor = Some(Ok(None))) => is_none(s.etherscan)
           /\ op = "with_local" =>
                /\ is_some(s.local)
                /\ is_none(Unwrap(s.local).contracts_bytecode)

\* An unsupported chain discarded the etherscan strategy the instance had.
C14_Witness ==
    /\ op = "with_etherscan" /\ ctor = Some(Ok(None))
    /\ is_some(replaced)
    /\ HasLocal /\ ~HasEtherscan

\* ----------------------------------------------------------------- C15
\* C15: frame. with_local and with_local_and_bytecodes leave the etherscan
\* slot unchanged, a successful with_etherscan leaves the local slot
\* unchanged, and the steps of identify_addresses leave both slots (and so
\* is_empty()) unchanged.
C15_FrameStep ==
    /\ (pc' = "idle" /\ op' \in {"with_local", "with_local_and_bytecodes"}) =>
           /\ is_some(self')
           /\ Unwrap(self').etherscan = Unwrap(self).etherscan
    /\ (pc' = "idle" /\ op' = "with_etherscan" /\ is_some(self')) =>
           Unwrap(self').local = Unwrap(self).local
    /\ pc' # "idle" =>
           /\ self' = self
           /\ is_empty(Unwrap(self')) = is_empty(Unwrap(self))

C15_Frame == [][C15_FrameStep]_vars

\* A local strategy was attached after etherscan, and two calls were made:
\* the etherscan strategy is still there.
C15_Witness ==
    /\ Returned /\ calls = 2
    /\ op \in {"with_local", "with_local_and_bytecodes"}
    /\ HasLocal /\ HasEtherscan
    /\ ~is_empty(Unwrap(self))

====
